---- MODULE Spec2Model ----
(***************************************************************************)
(* onmod: run a command pipeline when watched files change.                *)
(*                                                                         *)
(* The model has two threads.  The main thread is the watch loop of        *)
(* main() (src/onmod.py 345-445); the Runner thread is Runner.run()        *)
(* (src/onmod.py 255-270).  The operating system is the third party: it    *)
(* answers os.stat, decides how a spawn ends, lets child processes exit    *)
(* and decides whether a process honours SIGTERM within the 10 s timeout.  *)
(* Variables that only feed log lines (first, disp_msg, start_time,        *)
(* end_time, name) are left out.                                           *)
(***************************************************************************)
EXTENDS Integers, Sequences, FiniteSets, TLC

\* ------------------------------------------------------------------ bounds
MaxRetries == 2     \* largest --max_retries drawn by Init
MaxMtime == 2       \* os.stat answers an mtime in 1..MaxMtime
MaxFailed == 11     \* cap of a path's failure counter (it is unbounded in the code)

\* -------------------------------------------------------- program constants
RemoveThreshold == 10       \* onmod.py 419: failed[e.filename] >= 10
sub == "{}"                 \* onmod.py 119: default of --sub
SequencingTokens == {"&&", "||", ";"}   \* onmod.py 312

None == "None"

\* What Popen.wait() answers: nothing while the process runs, then its exit
\* status.
NotExited == <<>>
Exited(status) == <<status>>
SIGTERM == -15              \* exit status of a process ended by terminate()

VARIABLES
  \* args (argparse.Namespace), fixed by Init
  cmd, files, kill, loop, max_retries, wait,
  \* locals of main()
  mtimes, mtimesOrder, failed, diff_files, previous_diff_files, force,
  removed, diff_detected, runner, mpc, exc,
  \* the Runner object the variable runner refers to, and its thread
  cmds, proc, lock, rpc, attempt, idx, success, ret, error,
  \* the operating system: the stage's process and its descendant
  palive, pret, kalive,
  \* history of the run, read by the properties only:
  \*   liveThreads  Runner threads started and not yet ended
  \*   passes       calls of run_once by the current Runner
  \*   reqFailed    a required stage of the current pass exited non-zero
  \*   stopped      execute_command returned at line 251 (handle cleared)
  \*   killHit      kill() found the current stage's process running
  \*   killed       kill() was called on the current Runner
  \*   interrupted  per path: its stat succeeded in a poll after a failure
  \*                that failed[path] still counts
  \*   missing      a spawn of the current pass raised FileNotFoundError
  \*   missed       the paths that the last poll statted with a changed
  \*                mtime before the stat of a later path raised
  liveThreads, passes, reqFailed, stopped, killHit, killed, interrupted,
  missing, missed

argVars == <<cmd, files, kill, loop, max_retries, wait>>
mainVars == <<mtimes, mtimesOrder, failed, diff_files, previous_diff_files,
              force, removed, diff_detected, runner, mpc, exc>>
runnerVars == <<cmds, proc, lock, rpc, attempt, idx, success, ret, error>>
osVars == <<palive, pret, kalive>>
histVars == <<liveThreads, passes, reqFailed, stopped, killHit, killed,
              interrupted, missing, missed>>
vars == <<argVars, mainVars, runnerVars, osVars, histVars>>

\* ------------------------------------------------------------ pure helpers
Range(s) == {s[i] : i \in DOMAIN s}

Min(S) == CHOOSE x \in S : \A y \in S : x <= y

\* The paths the model watches, in the order sorted() gives them.
AllPaths == <<"a.txt", "b c">>

\* shlex.quote: a string of safe characters is returned as it is, any other
\* is wrapped in single quotes.
SafePaths == {"a.txt"}
quote(f) == IF f \in SafePaths THEN f ELSE "'" \o f \o "'"

\* sorted(diff_files), then quote() of each
RECURSIVE sortedQuoted(_, _)
sortedQuoted(S, i) ==
  IF i > Len(AllPaths) THEN <<>>
  ELSE (IF AllPaths[i] \in S THEN <<quote(AllPaths[i])>> ELSE <<>>)
       \o sortedQuoted(S, i + 1)

Command(a, r) == [args |-> a, required |-> r]

\* process_commands line 313: required=(c == '&&') of the stage that the
\* sequencing token c closes
ClosesRequiredNever(c) == FALSE
ClosesRequired(c) == c = "&&"

\* process_commands: the loop of lines 311-318 over args.cmd from token i on,
\* with the stages closed so far (out) and the open stage (cc); then 319-321.
RECURSIVE process_loop(_, _, _, _, _)
process_loop(tpl, dfiles, i, out, cc) ==
  IF i > Len(tpl)
  THEN IF cc # <<>> THEN Append(out, Command(cc, FALSE)) ELSE out
  ELSE LET c == tpl[i] IN
       IF c \in SequencingTokens
       THEN process_loop(tpl, dfiles, i + 1,
                         Append(out, Command(cc, ClosesRequired(c))), <<>>)
       ELSE IF c = sub
       THEN process_loop(tpl, dfiles, i + 1, out,
                         cc \o sortedQuoted(dfiles, 1))
       ELSE process_loop(tpl, dfiles, i + 1, out, Append(cc, c))

process_commands(tpl, dfiles) == process_loop(tpl, dfiles, 1, <<>>, <<>>)

\* handle_diff: the paths of the symmetric difference of the two item sets
handle_diff(old, new) ==
  LET items(m) == {<<f, m[f]>> : f \in DOMAIN m}
      diff == (items(old) \ items(new)) \cup (items(new) \ items(old))
  IN {x[1] : x \in diff}

\* Thread.join() returns once the thread is no longer alive.
JoinNoWait == TRUE
JoinReturns == rpc \in {"idle", "done", "crashed"}

\* Runner.run, line 257: the guard of the retry loop
RetryGuardOffByOne == attempt <= max_retries
RetryGuard == attempt < max_retries

\* ------------------------------------------------------------ Runner thread
\* run_once, line 220: `if not cmd`.  Command defines neither __bool__ nor
\* __len__, so an instance is always true and the test never skips a stage.
CommandIsFalsy(c) == FALSE

\* run, line 266: `success is None`.  run_once returns `success and result`
\* of booleans, which is never None.
SuccessIsNone == FALSE

\* run, line 265: `attempts = 0` binds a new name; attempt keeps its value.
AttemptAfterLoopedSuccess == attempt

\* What subprocess.Popen(cmd.args) can do (line 233).  An empty argv raises
\* IndexError (executable = args[0]), which no except clause catches.
SpawnOutcomes(c) ==
  IF c.args = <<>> THEN {"IndexError"}
  ELSE {"started", "FileNotFoundError", "OSError"}

\* The Runner is a daemon thread (line 205): it runs only while main has not
\* left, by return or by an exception (lines 445 and 451).
ProcessUp == mpc \notin {"returned", "raised"}

\* The thread ends: by returning from run() or by an uncaught exception.
ThreadEnds(how, err) ==
  /\ rpc' = how
  /\ error' = err
  /\ liveThreads' = liveThreads - 1

\* run, lines 257-261 and 269-270: the head of the retry loop.  A new pass
\* starts run_once (line 218), or the loop ends and the thread returns.
RunLoop ==
  /\ ProcessUp
  /\ rpc = "run"
  /\ IF RetryGuard
     THEN /\ attempt' = attempt + 1
          /\ passes' = passes + 1
          /\ success' = TRUE
          /\ idx' = 1
          /\ reqFailed' = FALSE
          /\ missing' = FALSE
          /\ rpc' = "stage"
          /\ UNCHANGED <<error, liveThreads>>
     ELSE /\ ThreadEnds("done", error)
          /\ UNCHANGED <<attempt, passes, success, idx, reqFailed, missing>>
  /\ UNCHANGED <<argVars, mainVars, osVars, cmds, proc, lock, ret, stopped,
                 killHit, killed, interrupted, missed>>

\* run_once line 225 and run lines 262-267: the pass is over.
PassEnd ==
  /\ ProcessUp
  /\ rpc = "stage"
  /\ idx > Len(cmds)
  /\ IF success
     THEN IF ~loop
          THEN /\ ThreadEnds("done", error)
               /\ UNCHANGED attempt
          ELSE /\ attempt' = AttemptAfterLoopedSuccess
               /\ rpc' = "run"
               /\ UNCHANGED <<error, liveThreads>>
     ELSE IF SuccessIsNone
          THEN /\ ThreadEnds("done", error)
               /\ UNCHANGED attempt
          ELSE /\ rpc' = "run"
               /\ UNCHANGED <<attempt, error, liveThreads>>
  /\ UNCHANGED <<argVars, mainVars, osVars, cmds, proc, lock, idx, success,
                 ret, passes, reqFailed, stopped, killHit, killed, interrupted,
                 missing, missed>>

\* run_once lines 219-224 up to execute_command lines 228-242: the next stage
\* is taken and spawned under the lock; outs is what the operating system
\* lets Popen do.  A started process may fork a descendant.
Stage(outs) ==
  /\ ProcessUp
  /\ rpc = "stage"
  /\ idx <= Len(cmds)
  /\ IF CommandIsFalsy(cmds[idx])
     THEN /\ idx' = idx + 1
          /\ UNCHANGED <<proc, rpc, success, error, osVars, liveThreads,
                         killHit, missing>>
     ELSE /\ lock = "free"
          /\ \E o \in SpawnOutcomes(cmds[idx]) \cap outs :
               CASE o = "started" ->
                      /\ proc' = "P"
                      /\ palive' = TRUE
                      /\ pret' = NotExited
                      /\ kalive' \in BOOLEAN
                      /\ rpc' = "deref"
                      /\ killHit' = FALSE
                      /\ UNCHANGED <<idx, success, error, liveThreads,
                                     missing>>
                 [] o = "FileNotFoundError" ->
                      /\ success' = FALSE
                      /\ idx' = idx + 1
                      /\ missing' = TRUE
                      /\ UNCHANGED <<proc, rpc, error, osVars, liveThreads,
                                     killHit>>
                 [] o = "OSError" ->
                      /\ success' = (success /\ ~cmds[idx].required)
                      /\ idx' = idx + 1
                      /\ UNCHANGED <<proc, rpc, error, osVars, liveThreads,
                                     killHit, missing>>
                 [] o = "IndexError" ->
                      /\ ThreadEnds("crashed", "IndexError")
                      /\ UNCHANGED <<proc, idx, success, osVars, killHit,
                                     missing>>
  /\ UNCHANGED <<argVars, mainVars, cmds, lock, attempt, ret, passes,
                 reqFailed, stopped, killed, interrupted, missed>>

\* execute_command line 243, first half: self.proc is read, outside the
\* lock, to call wait() on it.  None has no wait(): AttributeError.
Deref ==
  /\ ProcessUp
  /\ rpc = "deref"
  /\ IF proc = None
     THEN ThreadEnds("crashed", "AttributeError")
     ELSE /\ rpc' = "waiting"
          /\ UNCHANGED <<error, liveThreads>>
  /\ UNCHANGED <<argVars, mainVars, osVars, cmds, proc, lock, attempt, idx,
                 success, ret, passes, reqFailed, stopped, killHit, killed,
                 interrupted, missing, missed>>

\* execute_command lines 243-247: wait() returns the exit status once the
\* process has exited.
WaitReturn ==
  /\ ProcessUp
  /\ rpc = "waiting"
  /\ ~palive
  /\ ret' = pret
  /\ rpc' = "finish"
  /\ UNCHANGED <<argVars, mainVars, osVars, cmds, proc, lock, attempt, idx,
                 success, error, histVars>>

\* execute_command lines 248-253 and run_once line 224.  ret is not read
\* after the return, so it is put back to None.
Finish ==
  /\ ProcessUp
  /\ rpc = "finish"
  /\ lock = "free"
  /\ IF proc = None
     THEN /\ success' = FALSE
          /\ stopped' = TRUE
          /\ UNCHANGED <<proc, reqFailed>>
     ELSE /\ proc' = None
          /\ success' = (success /\ (ret = Exited(0)))
          /\ reqFailed' = (reqFailed \/ (cmds[idx].required /\ ret # Exited(0)))
          /\ UNCHANGED stopped
  /\ ret' = NotExited
  /\ idx' = idx + 1
  /\ rpc' = "stage"
  /\ UNCHANGED <<argVars, mainVars, osVars, cmds, lock, attempt, error,
                 liveThreads, passes, killHit, killed, interrupted, missing,
                 missed>>

\* -------------------------------------------------------- operating system
\* The stage's process exits by itself, with status 0 or 1.
ProcExit ==
  /\ palive
  /\ palive' = FALSE
  /\ pret' \in {Exited(0), Exited(1)}
  /\ UNCHANGED <<argVars, mainVars, runnerVars, kalive, histVars>>

\* A descendant of the stage's process exits by itself.
KidExit ==
  /\ kalive
  /\ kalive' = FALSE
  /\ UNCHANGED <<argVars, mainVars, runnerVars, palive, pret, histVars>>

\* ---------------------------------------------------------- Runner.kill()
\* Where main goes on after kill() returned, and after it raised: from line
\* 402 the exception reaches the finally clause of line 441 (exc holds it
\* until line 445), from line 443 it leaves main.
AfterKill(pc) == IF pc \in {"kill", "kill_body"} THEN "join" ELSE "fin_join"
AfterKillRaised(pc) ==
  IF pc \in {"kill", "kill_body"} THEN "fin_kill" ELSE "raised"

\* kill lines 273-275: take the lock; with no process recorded, return.
KillEnter ==
  /\ mpc \in {"kill", "fin_kill"}
  /\ lock = "free"
  /\ killed' = TRUE
  /\ IF proc = None
     THEN /\ mpc' = AfterKill(mpc)
          /\ UNCHANGED lock
     ELSE /\ lock' = "main"
          /\ mpc' = IF mpc = "kill" THEN "kill_body" ELSE "fin_kill_body"
  /\ UNCHANGED <<argVars, mtimes, mtimesOrder, failed, diff_files,
                 previous_diff_files, force, removed, diff_detected, runner,
                 exc, cmds, proc, rpc, attempt, idx, success, ret, error,
                 osVars, liveThreads, passes, reqFailed, stopped, killHit,
                 interrupted, missing, missed>>

\* kill lines 276-292, with the lock held.  A live process has its
\* descendants terminated and waited for 10 s each (a psutil.TimeoutExpired
\* is logged and the descendant stays), then is terminated itself and waited
\* for 10 s: subprocess.TimeoutExpired is not caught by line 289 and leaves
\* kill() after the finally clause.
KillBody ==
  /\ mpc \in {"kill_body", "fin_kill_body"}
  /\ proc' = None
  /\ lock' = "free"
  /\ IF palive
     THEN /\ killHit' = TRUE
          /\ kalive' \in (IF kalive THEN BOOLEAN ELSE {FALSE})
          /\ \E dies \in BOOLEAN :
               IF dies
               THEN /\ palive' = FALSE
                    /\ pret' = Exited(SIGTERM)
                    /\ mpc' = AfterKill(mpc)
                    /\ UNCHANGED exc
               ELSE /\ mpc' = AfterKillRaised(mpc)
                    /\ exc' = IF mpc = "kill_body"
                              THEN "TimeoutExpired" ELSE exc
                    /\ UNCHANGED <<palive, pret>>
     ELSE /\ mpc' = AfterKill(mpc)
          /\ UNCHANGED <<palive, pret, kalive, exc, killHit>>
  /\ UNCHANGED <<argVars, mtimes, mtimesOrder, failed, diff_files,
                 previous_diff_files, force, removed, diff_detected, runner,
                 cmds, rpc, attempt, idx, success, ret, error, liveThreads,
                 passes, reqFailed, stopped, killed, interrupted, missing,
                 missed>>

\* -------------------------------------------------------------- main thread
Paths == Range(files)

KeyOrders(S) ==
  {s \in [1..Cardinality(S) -> S] : Range(s) = S}

\* collections.defaultdict(int), lines 355 and 414
NoFailures == [f \in Paths |-> 0]

\* main line 419: the path leaves the watch list
ShouldRemoveLate(n) == n > RemoveThreshold
ShouldRemove(n) == n >= RemoveThreshold

\* main line 375: a forced poll without a new diff takes the change set of
\* the previous run
ForcedReplayNothing == {}
ForcedReplay == previous_diff_files

\* main lines 367-398 and 414-422: one poll.  os.stat raises OSError for the
\* paths of failing (one of failSets) and answers the mtime st[p], one of
\* stamps, for the others; the dict comprehension of line 368 stops at the
\* first path, in the dict's order, whose stat raises.
MainPoll(failSets, stamps) ==
  /\ mpc = "poll"
  /\ \E failing \in failSets \cap SUBSET DOMAIN mtimes,
        st \in [DOMAIN mtimes -> stamps] :
       LET bad == {i \in DOMAIN mtimesOrder : mtimesOrder[i] \in failing}
       IN
       IF bad # {}
       THEN LET f == mtimesOrder[Min(bad)]
                n == failed[f] + 1
            IN /\ failed[f] < MaxFailed
               /\ failed' = [failed EXCEPT ![f] = n]
               /\ IF ShouldRemove(n)
                  THEN /\ mtimes' = [p \in DOMAIN mtimes \ {f} |-> mtimes[p]]
                       /\ mtimesOrder' =
                            SelectSeq(mtimesOrder, LAMBDA p : p # f)
                       /\ removed' = removed \cup {f}
                  ELSE UNCHANGED <<mtimes, mtimesOrder, removed>>
               /\ interrupted' =
                    [p \in Paths |->
                       IF \E i \in 1..(Min(bad) - 1) : mtimesOrder[i] = p
                       THEN interrupted[p] \/ failed[p] > 0
                       ELSE interrupted[p]]
               /\ missed' =
                    {p \in DOMAIN mtimes :
                       /\ \E i \in 1..(Min(bad) - 1) : mtimesOrder[i] = p
                       /\ st[p] # mtimes[p]}
               /\ mpc' = "select"
               /\ UNCHANGED <<diff_files, diff_detected>>
       ELSE LET found == handle_diff(mtimes, st)
                replay == force /\ found = {}
                new_diff == (found # {}) \/ replay
                new_diff_files ==
                  IF replay THEN ForcedReplay ELSE found
                dd == diff_detected \/ new_diff
            IN /\ mtimes' = IF new_diff THEN st ELSE mtimes
               /\ diff_detected' = dd
               /\ diff_files' = IF new_diff
                                THEN diff_files \cup new_diff_files
                                ELSE diff_files
               /\ IF dd /\ ~(new_diff /\ wait)
                  THEN /\ mpc' = IF runner
                                 THEN (IF kill THEN "kill" ELSE "join")
                                 ELSE "start"
                       /\ UNCHANGED <<failed, interrupted>>
                  ELSE /\ failed' = NoFailures
                       /\ interrupted' = [p \in Paths |-> FALSE]
                       /\ mpc' = "select"
               /\ missed' = {}
               /\ UNCHANGED <<mtimesOrder, removed>>
  /\ UNCHANGED <<argVars, previous_diff_files, force, runner, exc,
                 runnerVars, osVars, liveThreads, passes, reqFailed, stopped,
                 killHit, killed, missing>>

\* main line 403: runner.join()
MainJoin ==
  /\ mpc = "join"
  /\ JoinReturns
  /\ mpc' = "start"
  /\ UNCHANGED <<argVars, mtimes, mtimesOrder, failed, diff_files,
                 previous_diff_files, force, removed, diff_detected, runner,
                 exc, runnerVars, osVars, histVars>>

\* main lines 398 and 405-414: the pipeline is built from the pending change
\* set (unchanged since line 398), a new Runner is constructed (lines
\* 204-215) and started, and the pending set becomes the previous one.
MainStart ==
  /\ mpc = "start"
  /\ cmds' = process_commands(cmd, diff_files)
  /\ proc' = None
  /\ lock' = "free"
  /\ rpc' = "run"
  /\ attempt' = 0
  /\ idx' = 0
  /\ success' = TRUE
  /\ ret' = NotExited
  /\ error' = None
  /\ runner' = TRUE
  /\ liveThreads' = liveThreads + 1
  /\ previous_diff_files' = diff_files
  /\ diff_files' = {}
  /\ diff_detected' = FALSE
  /\ failed' = NoFailures
  /\ interrupted' = [p \in Paths |-> FALSE]
  /\ mpc' = "select"
  /\ passes' = 0
  /\ reqFailed' = FALSE
  /\ stopped' = FALSE
  /\ killHit' = FALSE
  /\ killed' = FALSE
  /\ missing' = FALSE
  /\ UNCHANGED <<argVars, mtimes, mtimesOrder, force, removed, exc, osVars,
                 missed>>

\* handle_removed_files: every removed path is watched again with mtime 0;
\* the new keys enter the dict in the set's iteration order (perm).
handle_removed_files_keep(perm) ==
  /\ mtimes' = [p \in DOMAIN mtimes \cup removed |->
                  IF p \in removed THEN 0 ELSE mtimes[p]]
  /\ mtimesOrder' = mtimesOrder \o perm
  /\ UNCHANGED removed

handle_removed_files(perm) ==
  /\ mtimes' = [p \in DOMAIN mtimes \cup removed |->
                  IF p \in removed THEN 0 ELSE mtimes[p]]
  /\ mtimesOrder' = mtimesOrder \o perm
  /\ removed' = {}

\* main lines 423-438: force is cleared, then select() waits args.sleep
\* seconds for a line on stdin.
MainSelect ==
  /\ mpc = "select"
  /\ \E key \in BOOLEAN :
       IF key
       THEN /\ IF DOMAIN mtimes = {} /\ removed # {}
               THEN \E perm \in KeyOrders(removed) :
                      handle_removed_files(perm)
               ELSE UNCHANGED <<mtimes, mtimesOrder, removed>>
            /\ force' = TRUE
       ELSE /\ force' = FALSE
            /\ UNCHANGED <<mtimes, mtimesOrder, removed>>
  /\ mpc' = "poll"
  /\ missed' = {}
  /\ UNCHANGED <<argVars, failed, diff_files, previous_diff_files,
                 diff_detected, runner, exc, runnerVars, osVars, liveThreads,
                 passes, reqFailed, stopped, killHit, killed, interrupted,
                 missing>>

\* main lines 439-442: KeyboardInterrupt ends the loop wherever main is.
\* Raised inside kill(), it leaves through the finally clause of line 291
\* and releases the lock.
Interrupt ==
  /\ mpc \in {"poll", "select", "kill", "kill_body", "join", "start"}
  /\ exc' = "KeyboardInterrupt"
  /\ IF mpc = "kill_body"
     THEN /\ proc' = None
          /\ lock' = "free"
     ELSE UNCHANGED <<proc, lock>>
  /\ mpc' = IF runner THEN "fin_kill" ELSE "returned"
  /\ UNCHANGED <<argVars, mtimes, mtimesOrder, failed, diff_files,
                 previous_diff_files, force, removed, diff_detected, runner,
                 cmds, rpc, attempt, idx, success, ret, error, osVars,
                 histVars>>

\* main lines 444-445: runner.join(), then return 1; an exception that
\* kill() raised at line 402 goes on after the finally clause.
FinJoin ==
  /\ mpc = "fin_join"
  /\ JoinReturns
  /\ mpc' = IF exc = "TimeoutExpired" THEN "raised" ELSE "returned"
  /\ UNCHANGED <<argVars, mtimes, mtimesOrder, failed, diff_files,
                 previous_diff_files, force, removed, diff_detected, runner,
                 exc, runnerVars, osVars, histVars>>

\* ------------------------------------------------------------ specifications
Templates ==
  { <<"build.sh", "&&", "deploy.sh">>,
    <<"build.sh", ";", "deploy.sh">>,
    <<"echo", sub>> }

\* main lines 348-362, after define_flags/check_flags (lines 139-146: cmd and
\* files not empty, --loop only with --kill, max_retries >= 1).
InitWith(fileLists, templates, kills, waits, waitForMods) ==
  /\ cmd \in templates
  /\ files \in fileLists
  /\ kill \in kills
  /\ loop \in BOOLEAN
  /\ loop => kill
  /\ max_retries \in 1..MaxRetries
  /\ wait \in waits
  /\ \E wait_for_mod \in waitForMods :
       IF wait_for_mod
       THEN /\ mtimes \in [Range(files) -> 1..MaxMtime]
            /\ diff_detected = FALSE
       ELSE /\ mtimes = [f \in Range(files) |-> 0]
            /\ diff_detected = TRUE
  /\ mtimesOrder = files
  /\ failed = [f \in Range(files) |-> 0]
  /\ diff_files = {}
  /\ previous_diff_files = {}
  /\ force = FALSE
  /\ removed = {}
  /\ runner = FALSE
  /\ mpc = "poll"
  /\ exc = None
  /\ cmds = <<>>
  /\ proc = None
  /\ lock = "free"
  /\ rpc = "idle"
  /\ attempt = 0
  /\ idx = 0
  /\ success = TRUE
  /\ ret = NotExited
  /\ error = None
  /\ palive = FALSE
  /\ pret = NotExited
  /\ kalive = FALSE
  /\ liveThreads = 0
  /\ passes = 0
  /\ reqFailed = FALSE
  /\ stopped = FALSE
  /\ killHit = FALSE
  /\ killed = FALSE
  /\ interrupted = [f \in Range(files) |-> FALSE]
  /\ missing = FALSE
  /\ missed = {}

\* The Runner and main together: one watched file whose stat never fails,
\* every way a spawn and a process can end.
AllSpawns == {"started", "FileNotFoundError", "OSError", "IndexError"}

Init == InitWith({<<"a.txt">>}, Templates, BOOLEAN, {FALSE}, {FALSE})

Next ==
  \/ RunLoop
  \/ PassEnd
  \/ Stage(AllSpawns)
  \/ Deref
  \/ WaitReturn
  \/ Finish
  \/ ProcExit
  \/ KidExit
  \/ KillEnter
  \/ KillBody
  \/ MainPoll({{}}, 1..MaxMtime)
  \/ MainJoin
  \/ MainStart
  \/ MainSelect
  \/ Interrupt
  \/ FinJoin

Spec == Init /\ [][Next]_vars

\* The watch loop until the operator interrupts it: two watched files that
\* are never modified (every stat that succeeds answers the same mtime) and
\* whose stats may fail, neither --kill nor --wait_for_mod, and a command
\* whose executable does not exist, so that every Runner ends at once.
MissingExecutable == {"FileNotFoundError"}
Unmodified == {1}

InitWatch ==
  /\ InitWith({AllPaths}, {<<"echo", sub>>}, {FALSE}, BOOLEAN, {FALSE})
  /\ max_retries = 1
  /\ ~loop

NextWatch ==
  \/ RunLoop
  \/ PassEnd
  \/ Stage(MissingExecutable)
  \/ MainPoll(SUBSET Paths, Unmodified)
  \/ MainJoin
  \/ MainStart
  \/ MainSelect

SpecWatch == InitWatch /\ [][NextWatch]_vars

\* The pipeline builder and run_once over every command template of one to
\* three tokens: one watched file that is never modified and whose stat never
\* fails, with and without --wait_for_mod (with it, a keypress before any
\* change triggers a run with an empty change set), no --kill.
BuildTokens == {"a", sub} \cup SequencingTokens

BuildTemplates ==
  {<<x>> : x \in BuildTokens}
    \cup {<<x, y>> : x \in BuildTokens, y \in BuildTokens}
    \cup {<<x, y, z>> : x \in BuildTokens, y \in BuildTokens, z \in BuildTokens}

InitBuild ==
  /\ InitWith({<<"a.txt">>}, BuildTemplates, {FALSE}, {FALSE}, BOOLEAN)
  /\ max_retries = 1

NextBuild ==
  \/ RunLoop
  \/ PassEnd
  \/ Stage(AllSpawns)
  \/ Deref
  \/ WaitReturn
  \/ Finish
  \/ ProcExit
  \/ KidExit
  \/ MainPoll({{}}, Unmodified)
  \/ MainJoin
  \/ MainStart
  \/ MainSelect

SpecBuild == InitBuild /\ [][NextBuild]_vars

\* The watch loop under fair scheduling, for what eventually happens: one
\* watched file whose stat never fails and whose mtime only moves forward (so
\* that its changes stop, at MaxMtime), a one-stage command that always
\* spawns, with and without --kill and --wait, no operator keypress or
\* interrupt (select() of line 428 always times out).  The main thread and
\* the Runner thread each go on when they can, and a running process exits in
\* the end.
Started == {"started"}

SelectTimeout ==
  /\ MainSelect
  /\ ~force'

PollForward ==
  /\ MainPoll({{}}, 1..MaxMtime)
  /\ \A p \in DOMAIN mtimes : mtimes'[p] >= mtimes[p]

WatcherStep ==
  \/ PollForward
  \/ MainJoin
  \/ MainStart
  \/ SelectTimeout
  \/ KillEnter
  \/ KillBody
  \/ FinJoin

RunnerThreadStep ==
  \/ RunLoop
  \/ PassEnd
  \/ Stage(Started)
  \/ Deref
  \/ WaitReturn
  \/ Finish

InitLive ==
  /\ InitWith({<<"a.txt">>}, {<<"echo", sub>>}, BOOLEAN, BOOLEAN, {FALSE})
  /\ max_retries = 1
  /\ ~loop

NextLive ==
  \/ WatcherStep
  \/ RunnerThreadStep
  \/ ProcExit
  \/ KidExit

SpecLive ==
  /\ InitLive
  /\ [][NextLive]_vars
  /\ WF_vars(WatcherStep)
  /\ WF_vars(RunnerThreadStep)
  /\ WF_vars(ProcExit)

\* ------------------------------------------------------------------ claims
\* C1: in one pass of run_once, once a stage with required = true has exited
\* non-zero, no later stage of that pass is spawned and the pass result is
\* failure.
C1_RequiredFailureAborts ==
  reqFailed => (rpc \notin {"deref", "waiting", "finish"} /\ ~success)

\* C2: whenever kill() runs, the Runner thread never dereferences a handle
\* that kill() has cleared: execute_command never fails with AttributeError
\* on self.proc.wait().
C2_KillNeverBreaksWait == error # "AttributeError"

\* C3: once kill() has completed on a Runner whose stage process was running,
\* that process and its descendant are no longer alive, and the stage ends as
\* stopped (never through its exit code, never by a crash of the thread).
C3_KillStopsProcess ==
  (killHit /\ mpc \notin {"kill_body", "fin_kill_body"}) =>
     /\ ~palive
     /\ ~kalive
     /\ error # "AttributeError"
     /\ (rpc \in {"stage", "run", "done"} => stopped)

\* C4: after a stage of a pass was stopped by kill(), Runner.run starts no
\* further pass.
C4_StopEndsRetries == [][stopped => passes' <= passes]_vars

\* A step of the Runner thread, or the exit of the process it waits for.
RunnerStep ==
  \/ RunLoop
  \/ PassEnd
  \/ Stage(AllSpawns)
  \/ Deref
  \/ WaitReturn
  \/ Finish
  \/ ProcExit

\* C5: with loop = false and no kill, Runner.run never makes more than
\* max_retries passes, when it ends after a failed pass it has made exactly
\* max_retries passes, and until it ends it is never blocked (it can take a
\* step, or the process it waits for can exit), so it terminates.
C5_ExactlyNPasses ==
  (~loop /\ ~killed) =>
     /\ passes <= max_retries
     /\ ((rpc = "done" /\ ~success) => passes = max_retries)
     /\ ((rpc \in {"run", "stage", "deref", "waiting", "finish"} /\ ProcessUp)
           => ENABLED RunnerStep)

C5_Witness ==
  /\ ~loop
  /\ ~killed
  /\ rpc = "done"
  /\ ~success
  /\ max_retries = MaxRetries
  /\ passes = max_retries

\* C6: with loop = true, a pass that fully succeeds resets the attempt
\* counter and the pipeline is executed again: without kill(), Runner.run
\* does not end after a successful pass.
C6_LoopRunsUntilKilled ==
  (loop /\ ~killed /\ passes > 0 /\ success) =>
     /\ rpc # "done"
     /\ (rpc = "run" => attempt = 0)

\* C7: at most one Runner thread is alive at any time.
C7_OneRunnerThread == liveThreads <= 1

\* The previous Runner was killed and joined, and main is about to start the
\* next one.
C7_Witness ==
  /\ mpc = "start"
  /\ runner
  /\ killed
  /\ stopped
  /\ liveThreads = 0

\* C8: when the watch loop ended on an operator interrupt with a Runner
\* active, main returns (it does not leave by an exception) after kill() and
\* join(), and no process of that Runner is alive then.
C8_InterruptLeavesNoChild ==
  (exc = "KeyboardInterrupt" /\ runner /\ mpc \in {"returned", "raised"}) =>
     /\ mpc = "returned"
     /\ JoinReturns
     /\ ~palive
     /\ ~kalive

\* C9: the watched-path map and the removed set are disjoint in every state.
C9_WatchedRemovedDisjoint == DOMAIN mtimes \cap removed = {}

\* One path was removed and reinstated by a keypress (its counter is still
\* at the threshold, its mtime the sentinel) while another path is removed.
C9_Witness ==
  \E f \in DOMAIN mtimes :
    /\ mtimes[f] = 0
    /\ failed[f] >= 10
    /\ removed # {}

\* C10 as stated: a path enters the removed set only when the failures that
\* brought it there were in consecutive poll cycles (no poll in between
\* statted it successfully), it is not polled while removed, and it leaves
\* the removed set only by a keypress, with mtime 0.
C10_RemovedAfterTenConsecutive ==
  [][\A f \in Paths :
       /\ (f \in removed' /\ f \notin removed) => ~interrupted'[f]
       /\ (f \in removed /\ f \in removed') =>
            (f \notin DOMAIN mtimes' /\ failed'[f] <= failed[f])
       /\ (f \in removed /\ f \notin removed') =>
            (mpc = "select" /\ force' /\ mtimes'[f] = 0)]_vars

\* C10 amended: a path enters the removed set exactly when its stat raises
\* and its failure counter, which counts the polls in which its stat raised
\* since the last poll without any stat error, is then at least 10; it is not
\* polled while removed, and it leaves the removed set only by a keypress,
\* with mtime 0.
C10_RemovedAtCounterTen ==
  [][\A f \in Paths :
       /\ (f \in removed' /\ f \notin removed) <=>
            (failed'[f] = failed[f] + 1 /\ failed'[f] >= 10)
       /\ (f \in removed /\ f \in removed') =>
            (f \notin DOMAIN mtimes' /\ failed'[f] <= failed[f])
       /\ (f \in removed /\ f \notin removed') =>
            (mpc = "select" /\ force' /\ mtimes'[f] = 0)]_vars

\* A path was removed at counter 10 although a poll in between had statted
\* it successfully.
C10_Witness ==
  \E f \in removed : interrupted[f] /\ failed[f] = 10

\* The sequencing tokens of a template, in order, and the position of the
\* last one (0 when there is none).
SeqTokens(tpl) == SelectSeq(tpl, LAMBDA c : c \in SequencingTokens)

LastSeq(tpl) ==
  LET at == {i \in DOMAIN tpl : tpl[i] \in SequencingTokens}
  IN IF at = {} THEN 0 ELSE CHOOSE i \in at : \A j \in at : j <= i

NoTrailingOperator == cmd[Len(cmd)] \notin SequencingTokens

\* The stage after the last sequencing token gets no token at all: it is made
\* of substitution tokens only and the change set of the run (kept in
\* previous_diff_files by line 410) is empty.
TailExpandsEmpty ==
  /\ previous_diff_files = {}
  /\ \A i \in (LastSeq(cmd) + 1)..Len(cmd) : cmd[i] = sub

\* C11 as stated: for a template without a trailing sequencing operator and
\* any change set, the pipeline of a run has one stage more than the template
\* has sequencing tokens, and the stage closed by a sequencing token is
\* required iff that token is &&.
C11_StagesAreTokensPlusOne ==
  (runner /\ NoTrailingOperator) =>
     /\ Len(cmds) = Len(SeqTokens(cmd)) + 1
     /\ \A i \in 1..Len(SeqTokens(cmd)) :
          cmds[i].required = (SeqTokens(cmd)[i] = "&&")

\* C11 amended: the trailing stage counts only when it has at least one token
\* after substitution; a trailing stage made of substitution tokens only is
\* dropped when the change set is empty.  The required flags are as stated.
C11_StagesAreTokensPlusTail ==
  (runner /\ NoTrailingOperator) =>
     /\ Len(cmds) = Len(SeqTokens(cmd)) + (IF TailExpandsEmpty THEN 0 ELSE 1)
     /\ \A i \in 1..Len(SeqTokens(cmd)) :
          cmds[i].required = (SeqTokens(cmd)[i] = "&&")

\* A run built from an empty change set whose template ends in a stage of
\* substitution tokens only: as many stages as sequencing tokens.
C11_Witness ==
  /\ runner
  /\ NoTrailingOperator
  /\ TailExpandsEmpty
  /\ SeqTokens(cmd) = <<"&&">>
  /\ Len(cmds) = 1
  /\ cmds[1].required

\* C12: the trailing non-empty stage of a built pipeline has required = true.
C12_TrailingStageRequired ==
  (runner /\ NoTrailingOperator /\ ~TailExpandsEmpty) =>
     cmds[Len(cmds)].required

\* C17: run_once skips a stage with zero tokens, so no spawn is attempted
\* with an empty argument list (Popen([]) raises IndexError) and the stages
\* after it still run.
C17_EmptyStagesSkipped == error # "IndexError"

\* C16: once a spawn of a pass failed with FileNotFoundError, no later stage
\* of that pass is spawned and the pass result is failure.
C16_MissingExecutableAborts ==
  missing => (~success /\ rpc \notin {"deref", "waiting", "finish"})

\* C19: once a stage of the first pass was stopped by kill(), the Runner
\* spawns no process for a later stage of that pass.
C19_NoSpawnAfterStop ==
  (stopped /\ passes = 1) => rpc \notin {"deref", "waiting", "finish"}

\* C13: a path that a poll statted with a changed mtime is in the pending
\* change set after that poll, also when the stat of another path raised in
\* the same poll.
C13_StatFailureKeepsPolling == missed \subseteq diff_files

\* C14: a forced poll that completes without a stat error triggers a run in
\* that iteration, whatever --wait says (a forced poll that goes on to
\* select() without a trigger is one whose stat raised).
C14_ForceTriggersNow ==
  [][(mpc = "poll" /\ force /\ mpc' = "select") => failed' # NoFailures]_vars

\* C15: after the handling of a keypress every failure counter is zero.
C15_KeypressResetsFailures ==
  [][(mpc = "select" /\ force') => failed' = NoFailures]_vars

\* C18: a forced poll that completes without a new diff puts every path of
\* the previous run's change set (when that is not empty) into the pending
\* change set; until the next run is started the pending set loses no path
\* and the previous set stays; and the next run's pipeline is built from the
\* pending set.
C18_ForcedReplayKeepsPrevious ==
  [][/\ ( /\ mpc = "poll"
          /\ mpc' # "poll"
          /\ force
          /\ mtimes' = mtimes
          /\ previous_diff_files # {}
          /\ (mpc' = "select" => failed' = NoFailures) )
        => previous_diff_files \subseteq diff_files'
     /\ mpc # "start" =>
          /\ diff_files \subseteq diff_files'
          /\ previous_diff_files' = previous_diff_files
     /\ mpc = "start" =>
          /\ cmds' = process_commands(cmd, diff_files)
          /\ previous_diff_files' = diff_files]_vars

\* A forced poll has just triggered the second run, with the change set of
\* the first.
C18_Witness ==
  /\ mpc = "start"
  /\ force
  /\ ~wait
  /\ runner
  /\ previous_diff_files = Paths
  /\ diff_files = previous_diff_files
  /\ failed = NoFailures

\* C20: a path in the pending change set stays there until a run is started,
\* and a run whose change set contains it is started in the end (line 410
\* keeps that run's change set in previous_diff_files and line 411 empties
\* the pending set).
C20_NoChangeLost ==
  /\ [][\A f \in Range(AllPaths) :
         (f \in diff_files /\ mpc # "start") => f \in diff_files']_vars
  /\ \A f \in Range(AllPaths) :
       (f \in diff_files) ~> (diff_files = {} /\ f \in previous_diff_files)

====
